---- MODULE Spec2Model ----
(***************************************************************************)
(* Model of generator/gen/js_enum.py: the parser of `export enum` blocks   *)
(* (JsEnum.consume, Variant.consume), the value-type inference             *)
(* (Variant.get_value_type, JsEnum.get_value_type) and the emitter         *)
(* (Variant.to_rust, JsEnum.macro, JsEnum.to_rust).                        *)
(*                                                                         *)
(* Text is a sequence of characters; a character is a one-element string,  *)
(* except Half, which stands for U+00BD (VULGAR FRACTION ONE HALF).        *)
(***************************************************************************)
EXTENDS Integers, Sequences, FiniteSets, TLC

VARIABLES
    input,      \* how the collaborator's text was written (header, lines, ...)
    text,       \* the collaborator's cursor: `enum, text = JsEnum.consume(text)`
    enum,       \* the JsEnum returned by JsEnum.consume, or None
    pc,         \* position in consume / to_rust
    s,          \* JsEnum.consume: local s
    doc,        \* JsEnum.consume: local doc
    ident,      \* JsEnum.consume: match["ident"]
    body,       \* JsEnum.consume: local body
    variants,   \* JsEnum.consume: local variants
    macro_body, \* JsEnum.to_rust: local macro_body
    it,         \* JsEnum.get_value_type: variants the generator `it` has classified
    first_ty,   \* JsEnum.get_value_type: local first_ty
    ty,         \* JsEnum.get_value_type: the type `it` yielded last
    err,        \* the exception that ended the call, or NoErr
    out         \* the text JsEnum.to_rust returned, or NoText

vars == <<input, text, enum, pc, s, doc, ident, body, variants, macro_body,
          it, first_ty, ty, err, out>>

(***************************************************************************)
(* Bounds of the model.                                                    *)
(***************************************************************************)
MaxVariants == 3
MaxDocLines == 2

(***************************************************************************)
(* Characters.                                                             *)
(***************************************************************************)
NL == "\n"
SP == " "
QUOTE == "\""
Half == "U+00BD"

Digits == {"0", "1", "2", "3"}
\* str.isnumeric() accepts every character with a Unicode numeric value.
NumericChars == Digits \cup {Half}
Letters == {"A", "C", "D", "E", "F", "G", "a", "b", "c", "d", "e", "f", "g", "h",
            "m", "n", "o", "p", "r", "t", "u", "x", "y"}
\* \w of a str pattern: alphanumeric (str.isalnum) or underscore.
WordChars == Letters \cup NumericChars \cup {"_"}

\* no value: of an enum, of a type, of a text
None == [none |-> TRUE]
NoType == "None"
NoText == <<"None">>
NoErr == [cls |-> "none", msg |-> ""]
ParseError == [cls |-> "ParseError", msg |-> ""]

(***************************************************************************)
(* Text helpers.                                                           *)
(***************************************************************************)
Drop(t, n) == SubSeq(t, n + 1, Len(t))

StartsWith(t, lit) ==
    /\ Len(lit) <= Len(t)
    /\ \A i \in 1..Len(lit) : t[i] = lit[i]

\* number of leading characters of t that are in set C
Run(t, C) ==
    CHOOSE n \in 0..Len(t) :
        /\ \A i \in 1..n : t[i] \in C
        /\ (n = Len(t) \/ t[n + 1] \notin C)

\* index of the first c in t, 0 when there is none
IndexOf(t, c) ==
    IF \E i \in 1..Len(t) : t[i] = c
    THEN CHOOSE i \in 1..Len(t) : t[i] = c /\ \A j \in 1..(i - 1) : t[j] # c
    ELSE 0

RECURSIVE JoinLines(_)
JoinLines(ls) ==
    IF ls = <<>> THEN <<>>
    ELSE IF Len(ls) = 1 THEN ls[1]
    ELSE ls[1] \o <<NL>> \o JoinLines(Tail(ls))

RECURSIVE SplitLines(_)
SplitLines(t) ==
    IF t = <<>> THEN <<>>
    ELSE LET n == IndexOf(t, NL) IN
         IF n = 0 THEN <<t>>
         ELSE <<SubSeq(t, 1, n - 1)>> \o SplitLines(Drop(t, n))

(***************************************************************************)
(* helpers.py and models.py                                                *)
(***************************************************************************)
\* consume_match(pattern, s), with m the result of pattern.match(s): the named
\* captures and the text after the match, or ParseError when s does not begin
\* with a match.
consume_match(m, t) ==
    IF m.ok THEN [ok |-> TRUE, match |-> m, rest |-> Drop(t, m.end)]
    ELSE [ok |-> FALSE, err |-> ParseError]

\* consume_empty_lines(s): drop the run of empty lines at the start of s.
consume_empty_lines(t) == Drop(t, Run(t, {NL}))

\* read_until_closing_bracket(s): the text up to the matching "}" and the text
\* after it; ParseError when the bracket is never closed.
RECURSIVE ClosingAt(_, _, _)
ClosingAt(t, i, depth) ==
    IF i > Len(t) THEN 0
    ELSE IF t[i] = "{" THEN ClosingAt(t, i + 1, depth + 1)
    ELSE IF t[i] = "}" THEN (IF depth = 0 THEN i ELSE ClosingAt(t, i + 1, depth - 1))
    ELSE ClosingAt(t, i + 1, depth)

read_until_closing_bracket(t) ==
    LET i == ClosingAt(t, 1, 0) IN
    IF i = 0 THEN [ok |-> FALSE, err |-> ParseError]
    ELSE [ok |-> TRUE, body |-> SubSeq(t, 1, i - 1), rest |-> Drop(t, i)]

\* Documented.consume(s): the leading comment lines (payload, newline-stripped)
\* and the text after them.  A comment line is ` *// payload\n`.
CommentMark == <<"/", "/", SP>>

IsCommentLine(t) ==
    /\ StartsWith(Drop(t, Run(t, {SP})), CommentMark)
    /\ IndexOf(t, NL) # 0

RECURSIVE DocumentedConsume(_)
DocumentedConsume(t) ==
    IF IsCommentLine(t)
    THEN LET n == IndexOf(t, NL)
             payload == SubSeq(t, Run(t, {SP}) + Len(CommentMark) + 1, n - 1)
             r == DocumentedConsume(Drop(t, n))
         IN [doc |-> <<payload>> \o r.doc, rest |-> r.rest]
    ELSE [doc |-> <<>>, rest |-> t]

\* Documented.rust_documentation(): the documentation as `/// payload` lines.
RustCommentMark == <<"/", "/", "/", SP>>

rust_documentation(d) ==
    JoinLines([i \in 1..Len(d) |-> RustCommentMark \o d[i]])

\* join_nonempty_lines(lines)
RECURSIVE NonEmpty(_)
NonEmpty(ls) ==
    IF ls = <<>> THEN <<>>
    ELSE IF ls[1] = <<>> THEN NonEmpty(Tail(ls))
    ELSE <<ls[1]>> \o NonEmpty(Tail(ls))

join_nonempty_lines(ls) == JoinLines(NonEmpty(ls))

\* add_indent(s): every line of s one level (four spaces) deeper.
Indent == <<SP, SP, SP, SP>>

add_indent(t) ==
    LET ls == SplitLines(t) IN
    JoinLines([i \in 1..Len(ls) |-> Indent \o ls[i]])

\* snake_to_camel_case(ident): each "_"-separated part capitalised, joined.
Upper(c) ==
    CASE c = "a" -> "A" [] c = "b" -> "B" [] c = "c" -> "C" [] c = "d" -> "D"
      [] OTHER -> c

RECURSIVE snake_to_camel_case(_)
snake_to_camel_case(w) ==
    IF w = <<>> THEN <<>>
    ELSE IF w[1] = "_" THEN snake_to_camel_case(Tail(w))
    ELSE LET n == Run(w, WordChars \ {"_"}) IN
         <<Upper(w[1])>> \o SubSeq(w, 2, n) \o snake_to_camel_case(Drop(w, n))

(***************************************************************************)
(* js_enum.py: Variant                                                     *)
(***************************************************************************)
NoMatch == [ok |-> FALSE]

\* the variant pattern with the comma optional: r"^ *(?P<ident>\w+) = (?P<value>.+?),?\n"
PATTERN_VARIANT_OptionalComma(t) ==
    LET sp == Run(t, {SP})
        w  == Run(Drop(t, sp), WordChars)
        eq == sp + w
        v0 == eq + 4
        n  == IndexOf(Drop(t, v0), NL) + v0
        e  == IF n > v0 + 1 /\ t[n - 1] = "," THEN n - 2 ELSE n - 1
    IN  IF /\ w >= 1 /\ StartsWith(Drop(t, eq), <<SP, "=", SP>>)
           /\ n > v0 /\ t[v0] # NL
        THEN [ok |-> TRUE, ident |-> SubSeq(t, sp + 1, eq),
              value |-> SubSeq(t, v0, e), end |-> n]
        ELSE NoMatch

\* _PATTERN_VARIANT = r"^ *(?P<ident>\w+) = (?P<value>.+?),\n"
\* ` *` and `\w+` are greedy and what follows each cannot match a character of
\* the run, so both take the whole run; `.+?` is the shortest non-empty text
\* without a newline that is followed by ",\n".
PATTERN_VARIANT(t) ==
    LET sp == Run(t, {SP})
        w  == Run(Drop(t, sp), WordChars)
        eq == sp + w
        v0 == eq + 4
        J  == {j \in (v0 + 1)..(Len(t) - 1) :
                  /\ t[j] = "," /\ t[j + 1] = NL
                  /\ \A i \in v0..(j - 1) : t[i] # NL}
    IN  IF w >= 1 /\ StartsWith(Drop(t, eq), <<SP, "=", SP>>) /\ J # {}
        THEN LET j == CHOOSE k \in J : \A l \in J : k <= l IN
             [ok |-> TRUE, ident |-> SubSeq(t, sp + 1, eq),
              value |-> SubSeq(t, v0, j - 1), end |-> j + 1]
        ELSE NoMatch

\* Variant.consume returning the text it was given instead of the remainder
VariantConsumeKeepText(t) ==
    LET d == DocumentedConsume(t)
        r == consume_match(PATTERN_VARIANT(d.rest), d.rest)
    IN  IF r.ok
        THEN [ok |-> TRUE,
              variant |-> [documentation |-> d.doc, ident |-> r.match.ident,
                           value |-> r.match.value],
              rest |-> t]
        ELSE r

\* Variant.consume(s)
VariantConsume(t) ==
    LET d == DocumentedConsume(t)
        r == consume_match(PATTERN_VARIANT(d.rest), d.rest)
    IN  IF r.ok
        THEN [ok |-> TRUE,
              variant |-> [documentation |-> d.doc, ident |-> r.match.ident,
                           value |-> r.match.value],
              rest |-> consume_empty_lines(r.rest)]
        ELSE r

\* str.isnumeric()
IsNumeric(v) == v # <<>> /\ \A i \in 1..Len(v) : v[i] \in NumericChars

\* Variant.get_value_type(self): the type "str" or "int", or the TypeError raised
CantInfer == [cls |-> "TypeError", msg |-> "can't infer value type for variant"]

VariantGetValueType(v) ==
    IF StartsWith(v.value, <<QUOTE>>) THEN [ok |-> TRUE, ty |-> "str"]
    ELSE IF IsNumeric(v.value) THEN [ok |-> TRUE, ty |-> "int"]
    ELSE [ok |-> FALSE, err |-> CantInfer]

\* Variant.to_rust(self)
VariantToRust(v) ==
    join_nonempty_lines(<<rust_documentation(v.documentation),
                          snake_to_camel_case(v.ident) \o <<SP, "=", SP>>
                              \o v.value \o <<",">> >>)

(***************************************************************************)
(* js_enum.py: JsEnum                                                      *)
(***************************************************************************)
ExportEnum == <<"e", "x", "p", "o", "r", "t", SP, "e", "n", "u", "m", SP>>

\* _PATTERN_ENUM_OPEN = r"^ *export enum (?P<ident>\w+) \{\n"
PATTERN_ENUM_OPEN(t) ==
    LET sp == Run(t, {SP})
        i0 == sp + Len(ExportEnum)
        w  == Run(Drop(t, i0), WordChars)
    IN  IF /\ StartsWith(Drop(t, sp), ExportEnum)
           /\ w >= 1
           /\ StartsWith(Drop(t, i0 + w), <<SP, "{", NL>>)
        THEN [ok |-> TRUE, ident |-> SubSeq(t, i0 + 1, i0 + w), end |-> i0 + w + 3]
        ELSE NoMatch

\* the mapping with its two entries swapped
TYPE2MACRO_Swapped(type) ==
    CASE type = "str" -> <<"i", "n", "t", "_", "e", "n", "u", "m", "!">>
      [] type = "int" -> <<"s", "t", "r", "_", "e", "n", "u", "m", "!">>

\* _TYPE2MACRO = {int: "int_enum!", str: "str_enum!"}
TYPE2MACRO(type) ==
    CASE type = "int" -> <<"i", "n", "t", "_", "e", "n", "u", "m", "!">>
      [] type = "str" -> <<"s", "t", "r", "_", "e", "n", "u", "m", "!">>

PubEnum == <<"p", "u", "b", SP, "e", "n", "u", "m", SP>>
OpenBrace == <<SP, "{", NL>>
CloseBrace == <<NL, "}">>
Conflict == [cls |-> "TypeError", msg |-> "enum has multiple conflicting value types"]
EmptyEnum == [cls |-> "ValueError", msg |-> "can't infer value type for empty enum"]

(***************************************************************************)
(* The texts the collaborator hands to JsEnum.consume: an optional         *)
(* documentation block, a header, body lines, a closing bracket.           *)
(***************************************************************************)
DocLetters == <<"a", "b", "c", "d", "e", "f", "g", "h">>

RECURSIVE DocBlock(_)
DocBlock(n) ==
    IF n = 0 THEN <<>>
    ELSE DocBlock(n - 1) \o CommentMark \o <<DocLetters[n], NL>>

HeaderKinds == {"export", "indented", "noexport"}

HeaderText(k) ==
    CASE k = "export"   -> ExportEnum \o <<"A", "b", SP, "{", NL>>
      [] k = "indented" -> <<SP, SP>> \o ExportEnum \o <<"A", "b", SP, "{", NL, NL>>
      [] k = "noexport" -> <<"e", "n", "u", "m", SP, "A", "b", SP, "{", NL>>

LineKinds == {"int1", "int22", "str", "neg", "half", "nocomma", "docstr"}

LineIdent(k) ==
    CASE k = "int1"    -> <<"A">>
      [] k = "int22"   -> <<"b", "_", "c">>
      [] k = "str"     -> <<"C">>
      [] k = "neg"     -> <<"D">>
      [] k = "half"    -> <<"E">>
      [] k = "nocomma" -> <<"F">>
      [] k = "docstr"  -> <<"G">>

LineValue(k) ==
    CASE k = "int1"    -> <<"1">>
      [] k = "int22"   -> <<"2", "2">>
      [] k = "str"     -> <<QUOTE, "x", QUOTE>>
      [] k = "neg"     -> <<"-", "1">>
      [] k = "half"    -> <<Half>>
      [] k = "nocomma" -> <<"3">>
      [] k = "docstr"  -> <<QUOTE, "{", "y", "}", QUOTE>>

LineText(k) ==
    LET decl == LineIdent(k) \o <<SP, "=", SP>> \o LineValue(k) IN
    CASE k \in {"int1", "str"}          -> <<SP, SP>> \o decl \o <<",", NL>>
      [] k \in {"int22", "neg", "half"} -> decl \o <<",", NL>>
      [] k = "nocomma"                  -> decl \o <<NL>>
      [] k = "docstr"                   -> <<SP, SP>> \o CommentMark \o <<"d", NL>>
                                           \o <<SP, SP>> \o decl \o <<",", NL, NL>>

CloseKinds == {"flush", "indented", "missing"}

CloseText(k) ==
    CASE k = "flush"    -> <<"}", NL>>
      [] k = "indented" -> <<SP, SP, "}", NL>>
      [] k = "missing"  -> <<>>

RECURSIVE BodyText(_)
BodyText(ks) ==
    IF ks = <<>> THEN <<>> ELSE LineText(ks[1]) \o BodyText(Tail(ks))

Render(in) ==
    DocBlock(in.ndoc) \o HeaderText(in.header) \o BodyText(in.lines)
        \o CloseText(in.close)

Inputs ==
    [ndoc : 0..MaxDocLines, header : HeaderKinds, close : CloseKinds,
     lines : UNION {[1..n -> LineKinds] : n \in 0..MaxVariants}]

(***************************************************************************)
(* The run: enum, text = JsEnum.consume(text); out = enum.to_rust()        *)
(***************************************************************************)
Init ==
    /\ input \in Inputs
    /\ text = Render(input)
    /\ enum = None
    /\ pc = "consume"
    /\ s = <<>> /\ doc = <<>> /\ ident = <<>> /\ body = <<>> /\ variants = <<>>
    /\ macro_body = <<>>
    /\ it = 0
    /\ first_ty = NoType
    /\ ty = NoType
    /\ err = NoErr
    /\ out = NoText

\* an exception leaves the call: nothing is returned, nothing assigned
Raise(e) ==
    /\ pc' = "raised"
    /\ err' = e
    /\ UNCHANGED <<input, text, enum, s, doc, ident, body, variants, macro_body,
                   it, first_ty, ty, out>>

\* JsEnum.consume, up to the loop
JsEnumConsumeOpen ==
    /\ pc = "consume"
    /\ LET d == DocumentedConsume(text)
           r == consume_match(PATTERN_ENUM_OPEN(d.rest), d.rest)
       IN  IF ~r.ok THEN Raise(r.err)
           ELSE LET b == read_until_closing_bracket(consume_empty_lines(r.rest)) IN
                IF ~b.ok THEN Raise(b.err)
                ELSE /\ doc' = d.doc
                     /\ ident' = r.match.ident
                     /\ variants' = <<>>
                     /\ body' = b.body
                     /\ s' = consume_empty_lines(b.rest)
                     /\ pc' = "while"
                     /\ UNCHANGED <<input, text, enum, macro_body, it, first_ty, ty,
                                    err, out>>

\* the loop inserting each variant at the front of the list
JsEnumConsumeLoopPrepend ==
    /\ pc = "while"
    /\ body # <<>>
    /\ LET r == VariantConsume(body) IN
       IF ~r.ok THEN Raise(r.err)
       ELSE /\ body' = r.rest
            /\ variants' = <<r.variant>> \o variants
            /\ UNCHANGED <<input, text, enum, pc, s, doc, ident, macro_body, it,
                           first_ty, ty, err, out>>

\* the loop stopping at a malformed line and keeping what it parsed
JsEnumConsumeLoopRecover ==
    /\ pc = "while"
    /\ body # <<>>
    /\ LET r == VariantConsume(body) IN
       /\ body' = IF r.ok THEN r.rest ELSE <<>>
       /\ variants' = IF r.ok THEN Append(variants, r.variant) ELSE variants
       /\ UNCHANGED <<input, text, enum, pc, s, doc, ident, macro_body, it,
                      first_ty, ty, err, out>>

\* JsEnum.consume: one iteration of `while body`
JsEnumConsumeLoop ==
    /\ pc = "while"
    /\ body # <<>>
    /\ LET r == VariantConsume(body) IN
       IF ~r.ok THEN Raise(r.err)
       ELSE /\ body' = r.rest
            /\ variants' = Append(variants, r.variant)
            /\ UNCHANGED <<input, text, enum, pc, s, doc, ident, macro_body, it,
                           first_ty, ty, err, out>>

\* JsEnum.consume: `return enum, s`
JsEnumConsumeReturn ==
    /\ pc = "while"
    /\ body = <<>>
    /\ enum' = [documentation |-> doc, ident |-> ident, variants |-> variants]
    /\ text' = s
    /\ pc' = "to_rust"
    /\ UNCHANGED <<input, s, doc, ident, body, variants, macro_body, it, first_ty, ty,
                   err, out>>

\* JsEnum.to_rust: enum_body and macro_body, then the call of self.macro()
JsEnumToRustBody ==
    /\ pc = "to_rust"
    /\ LET vs == enum.variants
           enum_body == JoinLines([i \in 1..Len(vs) |-> VariantToRust(vs[i])])
       IN  macro_body' = PubEnum \o enum.ident \o OpenBrace \o add_indent(enum_body)
                             \o CloseBrace
    /\ it' = 0
    /\ pc' = "next"
    /\ UNCHANGED <<input, text, enum, s, doc, ident, body, variants, first_ty, ty, err,
                   out>>

\* get_value_type defaulting to the string type for an empty enum
JsEnumGetValueTypeNextDefault ==
    /\ pc = "next"
    /\ LET vs == enum.variants
           r  == IF vs = <<>> THEN [ok |-> TRUE, ty |-> "str"]
                 ELSE VariantGetValueType(vs[1])
       IN  /\ it' = IF vs = <<>> THEN 0 ELSE 1
           /\ IF ~r.ok
              THEN /\ pc' = "raised" /\ err' = r.err /\ UNCHANGED <<first_ty, ty>>
              ELSE /\ pc' = "all" /\ ty' = r.ty /\ first_ty' = r.ty
                   /\ UNCHANGED err
    /\ UNCHANGED <<input, text, enum, s, doc, ident, body, variants, macro_body,
                   out>>

\* get_value_type classifying every variant before it looks at any type
\* (a list in place of the generator)
JsEnumGetValueTypeNextEager ==
    /\ pc = "next"
    /\ LET vs  == enum.variants
           bad == {i \in 1..Len(vs) : ~VariantGetValueType(vs[i]).ok}
       IN  IF vs = <<>> THEN Raise(EmptyEnum)
           ELSE /\ IF bad # {}
                   THEN /\ it' = CHOOSE i \in bad : \A j \in bad : i <= j
                        /\ pc' = "raised" /\ err' = CantInfer
                        /\ UNCHANGED <<first_ty, ty>>
                   ELSE /\ it' = 1
                        /\ pc' = "all"
                        /\ ty' = VariantGetValueType(vs[1]).ty
                        /\ first_ty' = VariantGetValueType(vs[1]).ty
                        /\ UNCHANGED err
                /\ UNCHANGED <<input, text, enum, s, doc, ident, body, variants,
                               macro_body, out>>

\* JsEnum.get_value_type: `first_ty = next(it)`
JsEnumGetValueTypeNext ==
    /\ pc = "next"
    /\ IF enum.variants = <<>> THEN Raise(EmptyEnum)
       ELSE LET r == VariantGetValueType(enum.variants[1]) IN
            /\ it' = 1
            /\ IF ~r.ok
               THEN /\ pc' = "raised" /\ err' = r.err /\ UNCHANGED <<first_ty, ty>>
               ELSE /\ pc' = "all" /\ ty' = r.ty /\ first_ty' = r.ty
                    /\ UNCHANGED err
            /\ UNCHANGED <<input, text, enum, s, doc, ident, body, variants,
                           macro_body, out>>

\* the iteration without the comparison with first_ty
JsEnumGetValueTypeAllNoCheck ==
    /\ pc = "all"
    /\ it < Len(enum.variants)
    /\ LET r == VariantGetValueType(enum.variants[it + 1]) IN
       /\ it' = it + 1
       /\ IF ~r.ok THEN pc' = "raised" /\ err' = r.err /\ UNCHANGED ty
          ELSE ty' = r.ty /\ UNCHANGED <<pc, err>>
    /\ UNCHANGED <<input, text, enum, s, doc, ident, body, variants, macro_body,
                   first_ty, out>>

\* JsEnum.get_value_type: one iteration of `all(ty == first_ty for ty in it)`
JsEnumGetValueTypeAll ==
    /\ pc = "all"
    /\ it < Len(enum.variants)
    /\ LET r == VariantGetValueType(enum.variants[it + 1]) IN
       /\ it' = it + 1
       /\ IF ~r.ok THEN pc' = "raised" /\ err' = r.err /\ UNCHANGED ty
          ELSE /\ ty' = r.ty
               /\ IF r.ty # first_ty THEN pc' = "raised" /\ err' = Conflict
                  ELSE UNCHANGED <<pc, err>>
    /\ UNCHANGED <<input, text, enum, s, doc, ident, body, variants, macro_body,
                   first_ty, out>>

\* JsEnum.get_value_type returns first_ty; JsEnum.macro looks it up;
\* JsEnum.to_rust returns the text
JsEnumToRustReturn ==
    /\ pc = "all"
    /\ it = Len(enum.variants)
    /\ out' = TYPE2MACRO(first_ty) \o OpenBrace \o add_indent(macro_body)
                  \o CloseBrace
    /\ pc' = "done"
    /\ UNCHANGED <<input, text, enum, s, doc, ident, body, variants, macro_body,
                   it, first_ty, ty, err>>

Next ==
    \/ JsEnumConsumeOpen
    \/ JsEnumConsumeLoop
    \/ JsEnumConsumeReturn
    \/ JsEnumToRustBody
    \/ JsEnumGetValueTypeNext
    \/ JsEnumGetValueTypeAll
    \/ JsEnumToRustReturn

Spec == Init /\ [][Next]_vars

(***************************************************************************)
(* Properties.                                                             *)
(***************************************************************************)
\* JsEnum.consume has returned an enum
Returned == enum # None

\* a literal made of the digits 0-9 only
IsDigitLiteral(v) == v # <<>> /\ \A i \in 1..Len(v) : v[i] \in Digits

\* a literal between double quotes
IsQuotedString(v) == Len(v) >= 2 /\ v[1] = QUOTE /\ v[Len(v)] = QUOTE

\* JsEnum.get_value_type has returned or raised
InferenceEnded ==
    /\ Returned
    /\ \/ pc \in {"raised", "done"}
       \/ pc = "all" /\ it = Len(enum.variants)

InferenceReturned(type) == InferenceEnded /\ pc # "raised" /\ first_ty = type

InferenceRaised(cls) == Returned /\ pc = "raised" /\ err.cls = cls

\* C1: type inference is total: a non-empty enum of quoted strings gives the
\* string type, a non-empty enum of digit literals the integer type, an enum
\* with a string-valued and an integer-valued variant raises TypeError, and
\* an enum without variants raises ValueError.
C1_TypeInferenceTotal ==
    InferenceEnded =>
        LET vs == enum.variants
            I  == 1..Len(vs)
        IN  /\ (vs # <<>> /\ \A i \in I : IsQuotedString(vs[i].value))
                   => InferenceReturned("str")
            /\ (vs # <<>> /\ \A i \in I : IsDigitLiteral(vs[i].value))
                   => InferenceReturned("int")
            /\ (\E i, j \in I : /\ IsQuotedString(vs[i].value)
                                /\ IsDigitLiteral(vs[j].value))
                   => InferenceRaised("TypeError")
            /\ vs = <<>> => InferenceRaised("ValueError")

\* two integer variants, then a string variant: the conflict is reported
C1_Witness ==
    /\ InferenceRaised("TypeError")
    /\ err = Conflict
    /\ Len(enum.variants) = 3
    /\ IsDigitLiteral(enum.variants[1].value)
    /\ IsDigitLiteral(enum.variants[2].value)
    /\ IsQuotedString(enum.variants[3].value)

\* C2: the output of JsEnum.to_rust begins with the enum's documentation,
\* one comment line per documentation line and in the same order, directly
\* above the line of the macro invocation.
C2_EnumDocumentationEmitted ==
    (pc = "done" /\ input.ndoc > 0) =>
        LET ls == SplitLines(out)
            n  == input.ndoc
        IN  /\ Len(ls) > n
            /\ \A i \in 1..n : ls[i] = RustCommentMark \o <<DocLetters[i]>>
            /\ ls[n + 1] = TYPE2MACRO(first_ty) \o <<SP, "{">>

\* the first line of the text after its documentation lacks `export`
LacksExport(t) ==
    LET u == DocumentedConsume(t).rest IN
    StartsWith(Drop(u, Run(u, {SP})), <<"e", "n", "u", "m", SP>>)

\* the first line of the text after its documentation does not end in a comma
LacksComma(t) ==
    LET u == DocumentedConsume(t).rest
        n == IndexOf(u, NL)
    IN  n >= 2 /\ u[n - 1] # ","

\* the step ends the call with ParseError: nothing returned, nothing consumed
Rejected ==
    /\ pc' = "raised" /\ err' = ParseError
    /\ enum' = None /\ text' = text /\ out' = NoText

\* C3: a header without `export` and a body line without its trailing comma
\* each raise ParseError; no (value, remainder) pair is returned and the
\* caller's text is not consumed.
C3_MalformedRejected ==
    [][ /\ (pc = "consume" /\ LacksExport(text)) => Rejected
        /\ (pc = "while" /\ body # <<>> /\ LacksComma(body)) => Rejected ]_vars

\* a line without comma met after one variant was parsed
C3_Witness ==
    /\ pc = "raised" /\ err = ParseError /\ enum = None
    /\ Len(variants) = 1
    /\ LacksComma(body)
    /\ text = Render(input)

\* C4: Variant.get_value_type has exactly three cases: a value starting with
\* a double quote is a string, a value made of digit characters only is an
\* integer, and every other value raises TypeError.
C4_ThreeCases ==
    (Returned /\ it >= 1 /\ pc \in {"all", "raised", "done"}) =>
        LET v == enum.variants[it].value IN
        IF v[1] = QUOTE THEN ty = "str" /\ err # CantInfer
        ELSE IF IsDigitLiteral(v) THEN ty = "int" /\ err # CantInfer
        ELSE pc = "raised" /\ err = CantInfer

\* the identifier of a declared line in the casing of the output
LineRustIdent(k) == IF k = "int22" THEN <<"B", "C">> ELSE LineIdent(k)

IsEntryLine(l) == ~StartsWith(Drop(l, Run(l, {SP})), RustCommentMark)

\* the variant entries of an output: its lines between the two opening and
\* the two closing lines that are not comments
EntryLines(t) ==
    LET ls == SplitLines(t) IN SelectSeq(SubSeq(ls, 3, Len(ls) - 2), IsEntryLine)

\* C5: the variants are stored in the order of their lines, and the output
\* has one entry per variant, in that order, with the value text unchanged.
C5_OrderPreserved ==
    LET ks == input.lines IN
    /\ pc = "while" =>
           /\ Len(variants) <= Len(ks)
           /\ \A i \in 1..Len(variants) :
                  /\ variants[i].ident = LineIdent(ks[i])
                  /\ variants[i].value = LineValue(ks[i])
    /\ Returned =>
           /\ Len(enum.variants) = Len(ks)
           /\ \A i \in 1..Len(ks) :
                  /\ enum.variants[i].ident = LineIdent(ks[i])
                  /\ enum.variants[i].value = LineValue(ks[i])
    /\ pc = "done" =>
           EntryLines(out) =
               [i \in 1..Len(ks) |->
                    Indent \o Indent \o LineRustIdent(ks[i]) \o <<SP, "=", SP>>
                        \o LineValue(ks[i]) \o <<",">>]

\* three variants emitted, the first two different
C5_Witness ==
    /\ pc = "done"
    /\ Len(input.lines) = 3
    /\ input.lines[1] # input.lines[2]
    /\ Len(EntryLines(out)) = 3

IntMacroLine == <<"i", "n", "t", "_", "e", "n", "u", "m", "!", SP, "{">>
StrMacroLine == <<"s", "t", "r", "_", "e", "n", "u", "m", "!", SP, "{">>

\* C6: the output wraps the `pub enum` block in int_enum! exactly when the
\* inferred type is the integer type and in str_enum! exactly when it is the
\* string type; an enum of digit literals never gets str_enum!, an enum of
\* quoted strings never int_enum!.
C6_MacroSelection ==
    pc = "done" =>
        LET ls == SplitLines(out)
            vs == enum.variants
            I  == 1..Len(vs)
        IN  /\ ls[1] \in {IntMacroLine, StrMacroLine}
            /\ ls[1] = IntMacroLine <=> first_ty = "int"
            /\ ls[1] = StrMacroLine <=> first_ty = "str"
            /\ (\A i \in I : IsDigitLiteral(vs[i].value)) => ls[1] = IntMacroLine
            /\ (\A i \in I : IsQuotedString(vs[i].value)) => ls[1] = StrMacroLine
            /\ ls[2] = Indent \o PubEnum \o enum.ident \o <<SP, "{">>
            /\ ls[Len(ls) - 1] = Indent \o <<"}">>
            /\ ls[Len(ls)] = <<"}">>

\* two integer variants emitted
C6_Witness ==
    /\ pc = "done"
    /\ Len(enum.variants) = 2
    /\ \A i \in 1..2 : IsDigitLiteral(enum.variants[i].value)
    /\ SplitLines(out)[1] = IntMacroLine

\* the variants have one common type
InferenceSucceeds(vs) ==
    /\ vs # <<>>
    /\ \A i \in 1..Len(vs) : VariantGetValueType(vs[i]).ok
    /\ \A i \in 1..Len(vs) :
           VariantGetValueType(vs[i]).ty = VariantGetValueType(vs[1]).ty

\* C7: JsEnum.to_rust returns no text when type inference fails: an enum
\* without variants ends it with ValueError, an unclassifiable or conflicting
\* value with the TypeError of get_value_type.
C7_NoOutputWhenInferenceFails ==
    /\ out # NoText => pc = "done" /\ err = NoErr /\ InferenceSucceeds(enum.variants)
    /\ (Returned /\ pc \in {"raised", "done"}) =>
           LET vs == enum.variants IN
           /\ vs = <<>> => pc = "raised" /\ err = EmptyEnum /\ out = NoText
           /\ (vs # <<>> /\ ~InferenceSucceeds(vs)) =>
                  pc = "raised" /\ err \in {CantInfer, Conflict} /\ out = NoText

\* an enum with an empty body was parsed and to_rust raised ValueError
C7_Witness ==
    /\ Returned /\ enum.variants = <<>>
    /\ macro_body # <<>>
    /\ pc = "raised" /\ err = EmptyEnum /\ out = NoText

\* the body of the input does not parse: a line lacks its comma, or spaces
\* precede the closing bracket
BadBody ==
    /\ input.header # "noexport"
    /\ input.close # "missing"
    /\ \/ input.close = "indented"
       \/ \E i \in 1..Len(input.lines) : input.lines[i] = "nocomma"

\* C8: JsEnum.consume returns an enum only when the whole body was consumed;
\* text in the body that is no variant line, after any number of parsed
\* variants, ends the call with ParseError and no enum is returned.
C8_AllOrNothing ==
    /\ Returned =>
           /\ body = <<>>
           /\ enum.variants = variants
           /\ Len(variants) = Len(input.lines)
    /\ (pc = "raised" /\ ~Returned) => err = ParseError
    /\ (BadBody /\ pc \notin {"consume", "while"}) =>
           pc = "raised" /\ err = ParseError /\ ~Returned

\* two variants parsed, then the spaces before the closing bracket
C8_Witness ==
    /\ pc = "raised" /\ err = ParseError /\ enum = None
    /\ input.close = "indented"
    /\ Len(variants) = 2
    /\ body = <<SP, SP>>

\* the first variant that is unclassifiable or differs in type from the
\* first one; 0 when there is none
FirstOffender(vs) ==
    IF ~VariantGetValueType(vs[1]).ok THEN 1
    ELSE LET bad == {i \in 2..Len(vs) :
                        \/ ~VariantGetValueType(vs[i]).ok
                        \/ VariantGetValueType(vs[i]).ty
                               # VariantGetValueType(vs[1]).ty}
         IN  IF bad = {} THEN 0 ELSE CHOOSE i \in bad : \A j \in bad : i <= j

\* C9: get_value_type classifies the variants in order and stops at the first
\* offending one: that variant decides the error (its own TypeError when it
\* is unclassifiable, the conflict otherwise) and no later one is classified.
C9_LazyInOrder ==
    (Returned /\ enum.variants # <<>> /\ pc \in {"all", "raised", "done"}) =>
        LET vs == enum.variants
            k  == FirstOffender(vs)
        IN  /\ pc = "raised" =>
                   /\ k # 0
                   /\ it = k
                   /\ err = IF VariantGetValueType(vs[k]).ok THEN Conflict
                            ELSE CantInfer
            /\ pc = "all" => k = 0 \/ it < k
            /\ pc = "done" => k = 0 /\ it = Len(vs)

\* a conflict at the second variant, an unclassifiable third one
C9_Witness ==
    /\ Returned /\ pc = "raised" /\ err = Conflict
    /\ Len(enum.variants) = 3
    /\ it = 2
    /\ ~VariantGetValueType(enum.variants[3]).ok

\* C10: the loop of JsEnum.consume terminates: every iteration that does not
\* raise leaves a strictly shorter body, so the length of the body bounds the
\* iterations left; a step of the loop is another iteration, the return, or
\* ParseError.
C10_LoopTerminates ==
    [][pc = "while" =>
          \/ pc' = "while" /\ Len(body') < Len(body)
          \/ pc' = "to_rust" /\ body = <<>>
          \/ pc' = "raised" /\ err' = ParseError]_vars

\* the loop left after as many iterations as the bound allows
C10_Witness ==
    /\ pc = "to_rust"
    /\ body = <<>>
    /\ Len(variants) = MaxVariants

====
